---- MODULE Spec2Model ----
(***************************************************************************)
(* Model of scripts/load_to_scripts.py: CSV -> sanitized, typed schema ->   *)
(* create table if absent -> append with COPY.                              *)
(*                                                                          *)
(* A column name is a sequence of one-character strings.  The               *)
(* specifications share the variables:                                      *)
(*   SpecSchema  the column-name and column-type pipeline of main():        *)
(*               read_csv, drop unnamed, sanitize, sale_date, DDL, COPY     *)
(*   Spec        two runs of main(), one after the other, against one       *)
(*               PostgreSQL table (SpecLive: with a fair retry loop)        *)
(*   SpecRace    two runs of main() at the same time                        *)
(***************************************************************************)
EXTENDS Integers, Sequences, FiniteSets, TLC

(* ------------------------------ bounds --------------------------------- *)
MaxLen == 3
MaxCols == 2
MaxRows == 3

(* ---------------------------- characters ------------------------------- *)
Digits == {"0", "1"}
LowerLetters == {"a", "b", "c", "d", "e", "l", "m", "n", "o", "s", "t", "u"}
Whitespace == {" "}
\* the characters raw header names are drawn from
Chars == {"a", "B", "1", "_", " "}

\* str.lower() on the characters of the model's alphabet
LowerOf(c) ==
  CASE c = "B" -> "b"
    [] c = "S" -> "s"
    [] c = "D" -> "d"
    [] c = "U" -> "u"
    [] OTHER -> c

lower(s) == [i \in 1..Len(s) |-> LowerOf(s[i])]

RECURSIVE lstrip(_, _)
lstrip(s, drop) ==
  IF s # <<>> /\ Head(s) \in drop THEN lstrip(Tail(s), drop) ELSE s

RECURSIVE rstrip(_, _)
rstrip(s, drop) ==
  IF s # <<>> /\ s[Len(s)] \in drop
    THEN rstrip(SubSeq(s, 1, Len(s) - 1), drop)
    ELSE s

\* str.strip(chars)
strip(s, drop) == rstrip(lstrip(s, drop), drop)

RECURSIVE skip_non_alnum(_)
skip_non_alnum(s) ==
  IF s # <<>> /\ Head(s) \notin Digits \cup LowerLetters
    THEN skip_non_alnum(Tail(s))
    ELSE s

\* re.sub(r'[^0-9a-z]+', '_', s): every maximal run outside [0-9a-z] -> "_"
RECURSIVE sub_non_alnum(_)
sub_non_alnum(s) ==
  IF s = <<>> THEN <<>>
  ELSE IF Head(s) \in Digits \cup LowerLetters
    THEN <<Head(s)>> \o sub_non_alnum(Tail(s))
    ELSE <<"_">> \o sub_non_alnum(skip_non_alnum(s))

\* re.sub(r'__+', '_', s): every run of two or more "_" -> "_"
RECURSIVE sub_underscores(_)
sub_underscores(s) ==
  IF s = <<>> THEN <<>>
  ELSE IF Head(s) = "_" /\ Len(s) >= 2 /\ s[2] = "_"
    THEN <<"_">> \o sub_underscores(lstrip(Tail(s), {"_"}))
    ELSE <<Head(s)>> \o sub_underscores(Tail(s))

ColPrefix == <<"c", "o", "l", "_">>

sanitize(col) ==
  LET s == strip(sub_underscores(sub_non_alnum(lower(strip(col, Whitespace)))),
                 {"_"})
  IN IF s = <<>> \/ Head(s) \in Digits THEN ColPrefix \o s ELSE s

(* ------------------------- type inference ------------------------------ *)
\* A CSV cell is one of these kinds.  "na" is an empty field; "int" and
\* "float" are numeric literals whose text is not a date (250000, 1.5);
\* "bool" is true/false; "date" is text pandas parses as a date; "text" is
\* any other text.
CellKinds == {"na", "int", "float", "bool", "date", "text"}

SampleSize == 50

Range(s) == {s[i] : i \in 1..Len(s)}

\* Series.dropna()
dropna(values) == SelectSeq(values, LAMBDA v : v # "na")

\* Series.head(n)
head(values, n) == SubSeq(values, 1, IF Len(values) < n THEN Len(values) ELSE n)

\* The dtype pd.read_csv(..., low_memory=False) gives a column: integers
\* only stay int64 while no cell is missing (NaN forces float64), booleans
\* only stay bool while no cell is missing, a column with no value at all is
\* float64 (all NaN), a file without data rows yields object columns.
read_csv_dtype(cells) ==
  LET kinds == Range(cells) \ {"na"}
      hasna == "na" \in Range(cells)
  IN  IF cells = <<>> THEN "object"
      ELSE IF kinds = {} THEN "float64"
      ELSE IF kinds = {"int"} THEN (IF hasna THEN "float64" ELSE "int64")
      ELSE IF kinds \subseteq {"int", "float"} THEN "float64"
      ELSE IF kinds = {"bool"} THEN (IF hasna THEN "object" ELSE "bool")
      ELSE "object"

read_csv_series(cells) == [dtype |-> read_csv_dtype(cells), values |-> cells]

\* pd.to_datetime(series, errors='coerce').dt.date : numbers are offsets
\* from the epoch, text that is a date parses, everything else is NaT.
to_date_series(s) ==
  [dtype |-> "object",
   values |-> [i \in 1..Len(s.values) |->
                 IF s.values[i] \in {"date"} \/
                    (s.dtype \in {"int64", "float64"} /\ s.values[i] # "na")
                   THEN "date" ELSE "na"]]

pg_type_from_series(s) ==
  IF s.dtype = "int64" THEN "BIGINT"
  ELSE IF s.dtype = "float64" THEN "DOUBLE PRECISION"
  ELSE IF s.dtype = "bool" THEN "BOOLEAN"
  ELSE LET non_null == dropna(s.values)
       IN  IF non_null # <<>> /\ "date" \in Range(head(non_null, SampleSize))
             THEN "DATE"
             ELSE "TEXT"

(* ----------------------------- the DDL --------------------------------- *)
IdColumn == [name |-> <<"i", "d">>, typ |-> "SERIAL PRIMARY KEY"]

\* The column definitions of the CREATE TABLE statement, in order.  (For a
\* name that occurs twice in df.columns pandas hands pg_type_from_series a
\* frame instead of a series; the names emitted are the same.)
generate_create_table_sql(df) ==
  <<IdColumn>> \o
  [i \in 1..Len(df.columns) |->
     [name |-> sanitize(df.columns[i]),
      typ |-> pg_type_from_series(df.series[i])]]

(* ------------------------------ state ---------------------------------- *)
VARIABLES
  csv,        \* schema pipeline: the file, [header, data] column by column
  df,         \* schema pipeline: the DataFrame, [columns, series]
  ddl,        \* schema pipeline: column definitions of the generated DDL
  copy_cols,  \* schema pipeline: column list of the COPY statement
  step,       \* schema pipeline: position in main()
  pc,         \* loader: position of each run of main()
  file,       \* loader: what each run finds at csv_path
  nrows,      \* loader: number of data rows of each run's dataset
  attempts,   \* loader: failed connection attempts inside wait_for_db
  saw,        \* loader: what table_exists returned to each run
  txn,        \* loader: uncommitted work of each run's connection
  table,      \* loader: committed state of schema.table
  table0,     \* loader: the table as it was before any run
  ops,        \* loader: statements each run has executed
  failedAt    \* loader: where a failed run raised

schemaVars == <<csv, df, ddl, copy_cols, step>>
loaderVars == <<pc, file, nrows, attempts, saw, txn, table, table0, ops, failedAt>>
vars == <<csv, df, ddl, copy_cols, step,
          pc, file, nrows, attempts, saw, txn, table, table0, ops, failedAt>>

(* ------------------------ the schema pipeline -------------------------- *)
RECURSIVE SeqsUpTo(_, _)
SeqsUpTo(S, n) ==
  IF n = 0 THEN {<<>>}
  ELSE LET shorter == SeqsUpTo(S, n - 1)
       IN  shorter \cup {Append(s, c) : s \in shorter, c \in S}

\* the name read_csv gives a column whose header field is empty
UnnamedName == <<"U", "n", "n", "a", "m", "e", "d">>
\* a header that sanitizes to sale_date
SaleDateHeader == <<"S", "a", "l", "e", " ", "D", "a", "t", "e">>
SaleDateName == <<"s", "a", "l", "e", "_", "d", "a", "t", "e">>

RawNames == (SeqsUpTo(Chars, MaxLen) \ {<<>>}) \cup {UnnamedName}

NoDf == [columns |-> <<>>, series |-> <<>>]
TextColumn == <<"text">>

\* headers of distinct names over one fixed column of text
InitNames ==
  \E h \in SeqsUpTo(RawNames, MaxCols) \ {<<>>} :
    /\ \A i, j \in 1..Len(h) : i # j => h[i] # h[j]
    /\ csv = [header |-> h, data |-> [i \in 1..Len(h) |-> TextColumn]]

\* one column of every content, named sale_date or not
InitCells ==
  \E n \in {<<"a">>, SaleDateHeader}, cells \in SeqsUpTo(CellKinds, MaxRows) :
    csv = [header |-> <<n>>, data |-> <<cells>>]

LoaderIdle ==
  /\ pc = <<>> /\ file = <<>> /\ nrows = <<>> /\ attempts = <<>>
  /\ saw = <<>> /\ txn = <<>> /\ ops = <<>> /\ failedAt = <<>>
  /\ table = [exists |-> FALSE, rows |-> 0]
  /\ table0 = table

InitSchema ==
  /\ InitNames \/ InitCells
  /\ df = NoDf /\ ddl = <<>> /\ copy_cols = <<>> /\ step = "read_csv"
  /\ LoaderIdle

\* str(c).lower().startswith('unnamed')
is_unnamed(c) ==
  /\ Len(c) >= Len(UnnamedName)
  /\ SubSeq(lower(c), 1, Len(UnnamedName)) = lower(UnnamedName)

\* line 99: df = pd.read_csv(csv_path, low_memory=False)
ReadCsv ==
  /\ step = "read_csv"
  /\ df' = [columns |-> csv.header,
            series |-> [i \in 1..Len(csv.data) |-> read_csv_series(csv.data[i])]]
  /\ step' = "drop_unnamed"
  /\ UNCHANGED <<csv, ddl, copy_cols>>
  /\ UNCHANGED loaderVars

RECURSIVE KeptIndexes(_, _)
KeptIndexes(columns, i) ==
  IF i > Len(columns) THEN <<>>
  ELSE (IF is_unnamed(columns[i]) THEN <<>> ELSE <<i>>)
       \o KeptIndexes(columns, i + 1)

\* line 102: drop unnamed index-ish columns
DropUnnamed ==
  /\ step = "drop_unnamed"
  /\ LET keep == KeptIndexes(df.columns, 1)
     IN  df' = [columns |-> [k \in 1..Len(keep) |-> df.columns[keep[k]]],
                series |-> [k \in 1..Len(keep) |-> df.series[keep[k]]]]
  /\ step' = "sanitize"
  /\ UNCHANGED <<csv, ddl, copy_cols>>
  /\ UNCHANGED loaderVars

\* lines 105-106: df.columns = [sanitize(c) for c in df.columns]
SanitizeColumns ==
  /\ step = "sanitize"
  /\ df' = [df EXCEPT !.columns = [i \in 1..Len(df.columns) |->
                                     sanitize(df.columns[i])]]
  /\ step' = "sale_date"
  /\ UNCHANGED <<csv, ddl, copy_cols>>
  /\ UNCHANGED loaderVars

\* lines 109-111: parse the sale_date column if present
ParseSaleDate ==
  /\ step = "sale_date"
  /\ df' = [df EXCEPT !.series = [i \in 1..Len(df.series) |->
                                    IF df.columns[i] = SaleDateName
                                      THEN to_date_series(df.series[i])
                                      ELSE df.series[i]]]
  /\ step' = "ddl"
  /\ UNCHANGED <<csv, ddl, copy_cols>>
  /\ UNCHANGED loaderVars

\* line 130: ddl = generate_create_table_sql(df, schema, table)
GenerateDDL ==
  /\ step = "ddl"
  /\ ddl' = generate_create_table_sql(df)
  /\ step' = "copy"
  /\ UNCHANGED <<csv, df, copy_cols>>
  /\ UNCHANGED loaderVars

\* lines 144-148: the COPY statement names df.columns
BuildCopy ==
  /\ step = "copy"
  /\ copy_cols' = df.columns
  /\ step' = "built"
  /\ UNCHANGED <<csv, df, ddl>>
  /\ UNCHANGED loaderVars

NextSchema ==
  \/ ReadCsv
  \/ DropUnnamed
  \/ SanitizeColumns
  \/ ParseSaleDate
  \/ GenerateDDL
  \/ BuildCopy

SpecSchema == InitSchema /\ [][NextSchema]_vars

(* ------------------------------ the loader ----------------------------- *)
\* two invocations of main() against the same schema.table
Runs == {1, 2}
MaxLoad == 2
\* wait_for_db(dsn, max_retries=20, wait_seconds=3)
MaxRetries == 20

Terminal == {"done", "no_csv", "read_error", "unreachable", "connect_error",
             "failed"}
\* positions inside the try block of main(), connection open
InTry == {"check", "create", "blocked", "commit_ddl", "copy", "commit_copy"}

NoTxn == [created |-> FALSE, rows |-> 0]
NoOps == [wait_ok |-> 0, connects |-> 0, checks |-> 0, ddls |-> 0,
          copies |-> 0, commits |-> 0, blocked |-> 0]

SchemaIdle ==
  /\ csv = [header |-> <<>>, data |-> <<>>]
  /\ df = NoDf /\ ddl = <<>> /\ copy_cols = <<>> /\ step = "idle"

InitRuns ==
  /\ pc = [p \in Runs |-> "idle"]
  /\ attempts = [p \in Runs |-> 0]
  /\ saw = [p \in Runs |-> "unchecked"]
  /\ txn = [p \in Runs |-> NoTxn]
  /\ ops = [p \in Runs |-> NoOps]
  /\ failedAt = [p \in Runs |-> "none"]
  /\ nrows \in [Runs -> 1..MaxLoad]
  /\ table = table0

Init ==
  /\ SchemaIdle
  /\ file \in [Runs -> {"ok", "missing", "unreadable"}]
  /\ table0 \in {[exists |-> FALSE, rows |-> 0]} \cup
                {[exists |-> TRUE, rows |-> r] : r \in 0..MaxLoad}
  /\ InitRuns

\* mutation of Start: the database is awaited before the file is looked up
Start_db_first(p) ==
  /\ pc[p] = "idle"
  /\ pc' = [pc EXCEPT ![p] =
              CASE file[p] = "missing" -> "no_csv"
                [] file[p] = "unreadable" -> "read_error"
                [] OTHER -> "connect"]
  /\ ops' = [ops EXCEPT ![p].wait_ok = 1]
  /\ UNCHANGED <<file, nrows, attempts, saw, txn, table, table0, failedAt>>
  /\ UNCHANGED schemaVars

\* lines 95-99: the file is looked up and read before anything else
Start(p) ==
  /\ pc[p] = "idle"
  /\ pc' = [pc EXCEPT ![p] =
              CASE file[p] = "missing" -> "no_csv"
                [] file[p] = "unreadable" -> "read_error"
                [] OTHER -> "wait"]
  /\ UNCHANGED <<file, nrows, attempts, saw, txn, table, table0, ops, failedAt>>
  /\ UNCHANGED schemaVars

\* mutation of wait_for_db: one attempt more than max_retries
wait_for_db_one_more(p) ==
  /\ pc[p] = "wait"
  /\ \E reachable \in BOOLEAN :
       IF reachable
         THEN /\ pc' = [pc EXCEPT ![p] = "connect"]
              /\ ops' = [ops EXCEPT ![p].wait_ok = @ + 1]
              /\ UNCHANGED attempts
         ELSE /\ attempts' = [attempts EXCEPT ![p] = @ + 1]
              /\ pc' = [pc EXCEPT ![p] =
                          IF attempts[p] + 1 > MaxRetries
                            THEN "unreachable" ELSE "wait"]
              /\ UNCHANGED ops
  /\ UNCHANGED <<file, nrows, saw, txn, table, table0, failedAt>>
  /\ UNCHANGED schemaVars

\* lines 61-70: one iteration of the retry loop; the loop is left by return
\* on the first connection that opens, by raise after max_retries failures
wait_for_db(p) ==
  /\ pc[p] = "wait"
  /\ \E reachable \in BOOLEAN :
       IF reachable
         THEN /\ pc' = [pc EXCEPT ![p] = "connect"]
              /\ ops' = [ops EXCEPT ![p].wait_ok = @ + 1]
              /\ UNCHANGED attempts
         ELSE /\ attempts' = [attempts EXCEPT ![p] = @ + 1]
              /\ pc' = [pc EXCEPT ![p] =
                          IF attempts[p] + 1 >= MaxRetries
                            THEN "unreachable" ELSE "wait"]
              /\ UNCHANGED ops
  /\ UNCHANGED <<file, nrows, saw, txn, table, table0, failedAt>>
  /\ UNCHANGED schemaVars

\* line 125: conn = psycopg2.connect(dsn), outside the try, never retried
Connect(p) ==
  /\ pc[p] = "connect"
  /\ ops' = [ops EXCEPT ![p].connects = @ + 1]
  /\ \E opened \in BOOLEAN :
       pc' = [pc EXCEPT ![p] = IF opened THEN "check" ELSE "connect_error"]
  /\ UNCHANGED <<file, nrows, attempts, saw, txn, table, table0, failedAt>>
  /\ UNCHANGED schemaVars

\* mutation of table_exists: the query never finds the table
table_exists_never(p) == FALSE

\* lines 72-82: the catalog query sees committed tables
table_exists(p) == table.exists

\* line 128: if not table_exists(conn, schema, table)
CheckTable(p) ==
  /\ pc[p] = "check"
  /\ ops' = [ops EXCEPT ![p].checks = @ + 1]
  /\ saw' = [saw EXCEPT ![p] = IF table_exists(p) THEN "present" ELSE "absent"]
  /\ pc' = [pc EXCEPT ![p] = IF table_exists(p) THEN "copy" ELSE "create"]
  /\ UNCHANGED <<file, nrows, attempts, txn, table, table0, failedAt>>
  /\ UNCHANGED schemaVars

\* mutation of the DDL text: plain CREATE TABLE
IfNotExists_dropped == FALSE

\* line 57: the statement is CREATE TABLE IF NOT EXISTS
IfNotExists == TRUE

OtherCreating(p) == \E q \in Runs \ {p} : txn[q].created

\* except/finally of main(): rollback, re-raise, close
Raise(p, where) ==
  /\ txn' = [txn EXCEPT ![p] = NoTxn]
  /\ failedAt' = [failedAt EXCEPT ![p] = where]
  /\ pc' = [pc EXCEPT ![p] = "failed"]

\* line 133: cur.execute(ddl).  A committed table of that name makes the
\* statement a no-op with IF NOT EXISTS and an error without.
ExecDDL(p) ==
  /\ pc[p] = "create"
  /\ ~OtherCreating(p)
  /\ ops' = [ops EXCEPT ![p].ddls = @ + 1]
  /\ IF table.exists /\ ~IfNotExists
       THEN Raise(p, "duplicate")
       ELSE /\ txn' = [txn EXCEPT ![p].created = ~table.exists]
            /\ pc' = [pc EXCEPT ![p] = "commit_ddl"]
            /\ UNCHANGED failedAt
  /\ UNCHANGED <<file, nrows, attempts, saw, table, table0>>
  /\ UNCHANGED schemaVars

\* line 134: conn.commit() right after the DDL
CommitDDL(p) ==
  /\ pc[p] = "commit_ddl"
  /\ table' = [table EXCEPT !.exists = @ \/ txn[p].created]
  /\ txn' = [txn EXCEPT ![p] = NoTxn]
  /\ ops' = [ops EXCEPT ![p].commits = @ + 1]
  /\ pc' = [pc EXCEPT ![p] = "copy"]
  /\ UNCHANGED <<file, nrows, attempts, saw, table0, failedAt>>
  /\ UNCHANGED schemaVars

\* line 152: cur.copy_expert(...) streams every row into the transaction
ExecCopy(p) ==
  /\ pc[p] = "copy"
  /\ table.exists
  /\ ops' = [ops EXCEPT ![p].copies = @ + 1]
  /\ txn' = [txn EXCEPT ![p].rows = nrows[p]]
  /\ pc' = [pc EXCEPT ![p] = "commit_copy"]
  /\ UNCHANGED <<file, nrows, attempts, saw, table, table0, failedAt>>
  /\ UNCHANGED schemaVars

\* line 153: conn.commit() after COPY
CommitCopy(p) ==
  /\ pc[p] = "commit_copy"
  /\ table' = [table EXCEPT !.rows = @ + txn[p].rows]
  /\ txn' = [txn EXCEPT ![p] = NoTxn]
  /\ ops' = [ops EXCEPT ![p].commits = @ + 1]
  /\ pc' = [pc EXCEPT ![p] = "done"]
  /\ UNCHANGED <<file, nrows, attempts, saw, table0, failedAt>>
  /\ UNCHANGED schemaVars

\* lines 156-161: any statement inside the try may raise (catalog query,
\* DDL, COPY, commit); the handler rolls back and re-raises
DbError(p) ==
  /\ pc[p] \in InTry \ {"blocked"}
  /\ Raise(p, pc[p])
  /\ UNCHANGED <<file, nrows, attempts, saw, table, table0, ops>>
  /\ UNCHANGED schemaVars

\* line 133 while another connection holds an uncommitted CREATE of the same
\* name: PostgreSQL makes the statement wait on the catalog's unique index
DDLBlocked(p) ==
  /\ pc[p] = "create"
  /\ OtherCreating(p)
  /\ ops' = [ops EXCEPT ![p].ddls = @ + 1, ![p].blocked = @ + 1]
  /\ pc' = [pc EXCEPT ![p] = "blocked"]
  /\ UNCHANGED <<file, nrows, attempts, saw, txn, table, table0, failedAt>>
  /\ UNCHANGED schemaVars

\* the wait ends when the other transaction ends: after its commit the
\* catalog insert is a duplicate key (IF NOT EXISTS was tested before the
\* wait), after its rollback the statement creates the table
DDLResume(p) ==
  /\ pc[p] = "blocked"
  /\ ~OtherCreating(p)
  /\ IF table.exists
       THEN Raise(p, "duplicate")
       ELSE /\ txn' = [txn EXCEPT ![p].created = TRUE]
            /\ pc' = [pc EXCEPT ![p] = "commit_ddl"]
            /\ UNCHANGED failedAt
  /\ UNCHANGED <<file, nrows, attempts, saw, table, table0, ops>>
  /\ UNCHANGED schemaVars

NoRunInProgress == \A q \in Runs : pc[q] \in Terminal \cup {"idle"}

\* one invocation after the other
SeqStart(p) == NoRunInProgress /\ Start(p)

Next ==
  \E p \in Runs :
    \/ SeqStart(p)
    \/ wait_for_db(p)
    \/ Connect(p)
    \/ CheckTable(p)
    \/ ExecDDL(p)
    \/ CommitDDL(p)
    \/ ExecCopy(p)
    \/ CommitCopy(p)
    \/ DbError(p)

Spec == Init /\ [][Next]_vars

\* the retry loop of a started run keeps iterating
SpecLive == Spec /\ \A p \in Runs : WF_vars(wait_for_db(p))

\* two invocations at the same time, table absent, both files readable
InitRace ==
  /\ SchemaIdle
  /\ file = [p \in Runs |-> "ok"]
  /\ table0 = [exists |-> FALSE, rows |-> 0]
  /\ InitRuns

NextRace ==
  \E p \in Runs :
    \/ Start(p)
    \/ wait_for_db(p)
    \/ Connect(p)
    \/ CheckTable(p)
    \/ ExecDDL(p)
    \/ DDLBlocked(p)
    \/ DDLResume(p)
    \/ CommitDDL(p)
    \/ ExecCopy(p)
    \/ CommitCopy(p)
    \/ DbError(p)

SpecRace == InitRace /\ [][NextRace]_vars

(* ------------------- properties of the schema pipeline ----------------- *)
Renamed == step \in {"sale_date", "ddl", "copy", "built"}

\* C3: sanitize is idempotent: sanitizing a name main() has already
\* sanitized gives the same name back.
C3_SanitizeIdempotent ==
  Renamed => \A i \in 1..Len(df.columns) :
               sanitize(df.columns[i]) = df.columns[i]

ValidIdentifier(s) ==
  /\ s # <<>>
  /\ \A i \in 1..Len(s) : s[i] \in Digits \cup LowerLetters \cup {"_"}
  /\ Head(s) \notin Digits
  /\ \A i \in 1..Len(s) - 1 : ~(s[i] = "_" /\ s[i + 1] = "_")
  /\ Head(s) # "_"
  /\ s[Len(s)] # "_"

\* C4: every sanitized name is a non-empty identifier of lowercase
\* alphanumerics and underscores that does not start with a digit, has no
\* repeated underscore and no leading or trailing underscore.
C4_SanitizedValid ==
  Renamed => \A i \in 1..Len(df.columns) : ValidIdentifier(df.columns[i])

\* C7: the COPY statement names exactly the columns of the DDL after id, in
\* the same order, and the DDL has id first and one column per source column.
C7_CopyMatchesDDL ==
  step = "built" =>
    /\ Len(ddl) = Len(df.columns) + 1
    /\ ddl[1] = IdColumn
    /\ copy_cols = [i \in 1..Len(df.columns) |-> ddl[i + 1].name]

\* the decision order of the specification over the non-missing values
InferTypeByOrder(non_missing) ==
  IF Range(non_missing) \subseteq {"int"} THEN "BIGINT"
  ELSE IF Range(non_missing) \subseteq {"int", "float"} THEN "DOUBLE PRECISION"
  ELSE IF Range(non_missing) \subseteq {"bool"} THEN "BOOLEAN"
  ELSE IF "date" \in Range(head(non_missing, SampleSize)) THEN "DATE"
  ELSE "TEXT"

OneColumnTyped ==
  /\ step \in {"copy", "built"}
  /\ Len(csv.header) = 1
  /\ Len(ddl) = 2

\* C6: the type of a column that has a non-missing value is decided by the
\* stated order over its non-missing values alone (missing cells do not
\* change it).
C6_TypeByDecisionOrder ==
  (/\ OneColumnTyped
   /\ csv.header[1] # SaleDateHeader
   /\ dropna(csv.data[1]) # <<>>)
  => ddl[2].typ = InferTypeByOrder(dropna(csv.data[1]))

\* C9: a column whose values are all missing is typed TEXT.
C9_AllMissingIsText ==
  (OneColumnTyped /\ dropna(csv.data[1]) = <<>>) => ddl[2].typ = "TEXT"

(* ------------------------ properties of the loader --------------------- *)
Started == pc \in [Runs -> Terminal \cup InTry \cup {"idle", "wait", "connect"}]

OnlyRun(p) == \A q \in Runs \ {p} : pc[q] = "idle"

\* C1: when a run is over, either everything it had to do is committed (the
\* table exists and holds all its rows) or nothing is (the table is as it
\* was before the run); in particular a table the run created is gone when
\* its COPY failed.
C1_CreateAndLoadAtomic ==
  Started =>
    \A p \in Runs :
      (pc[p] \in Terminal /\ OnlyRun(p)) =>
        \/ table = table0
        \/ table = [exists |-> TRUE, rows |-> table0.rows + nrows[p]]

Sum(f) == f[1] + f[2]

\* C2: a successful run against an absent table executes the DDL once and
\* loads its rows, a successful run against an existing table executes no
\* DDL, and after two successful runs the table holds the rows of both.
C2_CreateOrAppend ==
  Started =>
    /\ \A p \in Runs :
         (pc[p] = "done" /\ OnlyRun(p)) =>
           /\ ops[p].ddls = (IF table0.exists THEN 0 ELSE 1)
           /\ ops[p].copies = 1
           /\ table = [exists |-> TRUE, rows |-> table0.rows + nrows[p]]
    /\ (\A p \in Runs : pc[p] = "done") =>
         /\ Sum([p \in Runs |-> ops[p].ddls]) = (IF table0.exists THEN 0 ELSE 1)
         /\ \A p \in Runs : saw[p] = "present" => ops[p].ddls = 0
         /\ table = [exists |-> TRUE, rows |-> table0.rows + Sum(nrows)]

C2_Witness ==
  /\ Started
  /\ ~table0.exists
  /\ \A p \in Runs : pc[p] = "done"
  /\ \E p, q \in Runs : /\ saw[p] = "absent" /\ ops[p].ddls = 1
                        /\ saw[q] = "present" /\ ops[q].ddls = 0
  /\ table.rows = nrows[1] + nrows[2]

NoDbWork(p) ==
  /\ ops[p].connects = 0 /\ ops[p].checks = 0 /\ ops[p].ddls = 0
  /\ ops[p].copies = 0 /\ ops[p].commits = 0
  /\ saw[p] = "unchecked" /\ txn[p] = NoTxn

C5_RetryBounded ==
  Started =>
    \A p \in Runs :
      /\ attempts[p] <= MaxRetries
      /\ attempts[p] + ops[p].wait_ok <= MaxRetries
      /\ ops[p].wait_ok <= 1
      /\ pc[p] = "wait" => ops[p].wait_ok = 0 /\ attempts[p] < MaxRetries
      /\ pc[p] = "unreachable" =>
           attempts[p] = MaxRetries /\ ops[p].wait_ok = 0 /\ NoDbWork(p)
      /\ pc[p] \in InTry \cup {"connect", "connect_error", "failed", "done"} =>
           ops[p].wait_ok = 1
      /\ ops[p].connects <= 1 /\ ops[p].checks <= 1
      /\ ops[p].ddls <= 1 /\ ops[p].copies <= 1
      /\ pc[p] = "connect_error" => ops[p].checks = 0 /\ ops[p].copies = 0

\* C5: wait_for_db makes at most max_retries attempts, returns at the first
\* one that succeeds and always ends; when all fail the run ends unreachable
\* without any check, DDL or load; nothing after the retry phase is retried.
C5_BoundedConnectionRetry ==
  /\ []C5_RetryBounded
  /\ \A p \in Runs : (Started /\ pc[p] = "wait") ~> (pc[p] # "wait")

C5_Witness ==
  /\ Started
  /\ \E p, q \in Runs :
       /\ pc[p] = "unreachable" /\ attempts[p] = MaxRetries
       /\ pc[q] = "failed" /\ attempts[q] > 0 /\ ops[q].wait_ok = 1

\* C8: a run whose source file is missing or unreadable ends before any
\* connection attempt, existence check, DDL or bulk load, and leaves the
\* database as it was.
C8_InputNotFoundFirst ==
  Started =>
    \A p \in Runs :
      pc[p] \in {"no_csv", "read_error"} =>
        /\ attempts[p] = 0 /\ ops[p] = NoOps /\ NoDbWork(p)
        /\ OnlyRun(p) => table = table0

C8_Witness ==
  /\ Started
  /\ \E p, q \in Runs : pc[p] = "no_csv" /\ pc[q] = "read_error"

BothSawAbsent == Started /\ \A p \in Runs : saw[p] = "absent"

====
